---- MODULE Spec2Model ----
(***************************************************************************)
(* A model of lambda_function.py: the daily AWS cost report job.           *)
(*                                                                         *)
(*   Spec       lambda_handler, invoked NumInvocations times on one day,   *)
(*              the invocations interleaved at their external calls        *)
(*   RaiseSpec  Spec with statements of lambda_handler itself raising      *)
(*   EmailSpec  send_email_report over every recipient list                *)
(*   FleetSpec  get_all_charged_resources, its region tasks interleaved    *)
(*   CostSpec   get_detailed_cost_explorer_data over billing responses of  *)
(*              up to MaxBuckets time buckets                              *)
(*   RegionSpec get_charged_resources_in_region over its sub-queries'      *)
(*              answers                                                    *)
(*   CleanSpec  clean_usage_type_name over usage codes                     *)
(*                                                                         *)
(* Strings the code inspects character by character (recipient addresses)  *)
(* are sequences of one-character strings.                                 *)
(***************************************************************************)
EXTENDS Integers, Sequences, FiniteSets, TLC

\* ------------------------------------------------------------------ bounds
NumInvocations == 2     \* invocations of lambda_handler on one calendar day
MaxRecipients == 3      \* entries of RECIPIENT_EMAILS
MaxAddrLen == 2         \* characters of one entry of RECIPIENT_EMAILS
NumRegions == 3         \* regions describe_regions returns, in FleetSpec
MAX_WORKERS == 2        \* worker threads of the pool, in FleetSpec
MaxBuckets == 2         \* entries of ResultsByTime in a billing response, in CostSpec

\* ----------------------------------------------------------------- helpers
RECURSIVE SeqsUpTo(_, _)
\* all sequences over S of length at most n
SeqsUpTo(S, n) ==
    IF n = 0 THEN {<<>>}
    ELSE LET shorter == SeqsUpTo(S, n - 1)
         IN shorter \cup {Append(s, x) : s \in {t \in shorter : Len(t) = n - 1}, x \in S}

Range(s) == {s[k] : k \in DOMAIN s}

\* ------------------------------------------------------ send_email_report
AddrChars == {" ", "a"}          \* a blank and a non-blank character
Addresses == SeqsUpTo(AddrChars, MaxAddrLen)

RECURSIVE lstrip(_)
lstrip(s) == IF s # <<>> /\ Head(s) = " " THEN lstrip(Tail(s)) ELSE s

RECURSIVE rstrip(_)
rstrip(s) ==
    IF s # <<>> /\ s[Len(s)] = " " THEN rstrip(SubSeq(s, 1, Len(s) - 1)) ELSE s

\* str.strip(): leading and trailing whitespace removed
strip(s) == rstrip(lstrip(s))

\* The loop with each send in a try of its own, the result True when every
\* send went through (a mutation).
RECURSIVE SendLoopKeepsGoing(_, _, _, _)
SendLoopKeepsGoing(recipients, ses, k, log) ==
    IF k > Len(recipients)
    THEN [result |-> \A j \in DOMAIN log : log[j].ok, calls |-> log]
    ELSE LET recipient == strip(recipients[k])
         IN IF recipient = <<>>
            THEN SendLoopKeepsGoing(recipients, ses, k + 1, log)
            ELSE SendLoopKeepsGoing(recipients, ses, k + 1,
                    Append(log, [to |-> recipient, index |-> k, ok |-> ses[k] = "ok"]))

\* The recipient loop from entry k on. ses[k] is what ses_client.send_email
\* does for entry k ("ok" or "raise"); log is the send_email calls made so far.
RECURSIVE SendLoop(_, _, _, _)
SendLoop(recipients, ses, k, log) ==
    IF k > Len(recipients) THEN [result |-> TRUE, calls |-> log]
    ELSE LET recipient == strip(recipients[k])
         IN IF recipient = <<>>
            THEN SendLoop(recipients, ses, k + 1, log)
            ELSE IF ses[k] = "raise"
                 THEN [result |-> FALSE,
                       calls |-> Append(log, [to |-> recipient, index |-> k, ok |-> FALSE])]
                 ELSE SendLoop(recipients, ses, k + 1,
                               Append(log, [to |-> recipient, index |-> k, ok |-> TRUE]))

\* send_email_report with RECIPIENT_EMAILS = recipients. prepared is FALSE when
\* creating the SES client or rendering the bodies raises; guard tells whether
\* the recipient guard let the call through.
send_email_report(recipients, prepared, ses) ==
    IF recipients = <<>> \/ recipients[1] = <<>>
    THEN [result |-> FALSE, calls |-> <<>>, guard |-> FALSE]
    ELSE IF ~prepared
         THEN [result |-> FALSE, calls |-> <<>>, guard |-> TRUE]
         ELSE [guard |-> TRUE] @@ SendLoop(recipients, ses, 1, <<>>)

\* -------------------------------------------------------- string literals
region_prefixes == <<
    <<"U", "S", "E", "1", "-">>,
    <<"U", "S", "E", "2", "-">>,
    <<"U", "S", "W", "1", "-">>,
    <<"U", "S", "W", "2", "-">>,
    <<"E", "U", "W", "1", "-">>,
    <<"E", "U", "W", "2", "-">>,
    <<"E", "U", "W", "3", "-">>,
    <<"A", "P", "S", "1", "-">>,
    <<"A", "P", "S", "2", "-">>,
    <<"A", "P", "N", "1", "-">>,
    <<"A", "P", "N", "2", "-">>,
    <<"S", "A", "E", "1", "-">>,
    <<"C", "A", "N", "1", "-">>,
    <<"E", "U", "C", "1", "-">>>>

\* The source's string literals, as character sequences.
str ==
    ("NatGateway" :> <<"N", "a", "t", "G", "a", "t", "e", "w", "a", "y">>) @@
    ("PublicIP" :> <<"P", "u", "b", "l", "i", "c", "I", "P">>) @@
    ("VpcEndpoint" :> <<"V", "p", "c", "E", "n", "d", "p", "o", "i", "n", "t">>) @@
    ("VPN" :> <<"V", "P", "N">>) @@
    ("BoxUsage" :> <<"B", "o", "x", "U", "s", "a", "g", "e">>) @@
    ("EBS" :> <<"E", "B", "S">>) @@
    ("VolumeUsage" :> <<"V", "o", "l", "u", "m", "e", "U", "s", "a", "g", "e">>) @@
    ("SnapshotUsage" :> <<"S", "n", "a", "p", "s", "h", "o", "t", "U", "s", "a", "g", "e">>) @@
    ("IOPS" :> <<"I", "O", "P", "S">>) @@
    ("DataTransfer" :> <<"D", "a", "t", "a", "T", "r", "a", "n", "s", "f", "e", "r">>) @@
    ("LoadBalancer" :> <<"L", "o", "a", "d", "B", "a", "l", "a", "n", "c", "e", "r">>) @@
    ("InstanceUsage" :> <<"I", "n", "s", "t", "a", "n", "c", "e", "U", "s", "a", "g", "e">>) @@
    ("StorageUsage" :> <<"S", "t", "o", "r", "a", "g", "e", "U", "s", "a", "g", "e">>) @@
    ("BackupUsage" :> <<"B", "a", "c", "k", "u", "p", "U", "s", "a", "g", "e">>) @@
    ("Requests" :> <<"R", "e", "q", "u", "e", "s", "t", "s">>) @@
    ("Request" :> <<"R", "e", "q", "u", "e", "s", "t">>) @@
    ("Duration" :> <<"D", "u", "r", "a", "t", "i", "o", "n">>) @@
    ("NodeUsage" :> <<"N", "o", "d", "e", "U", "s", "a", "g", "e">>) @@
    ("Amazon Virtual Private Cloud" :> <<"A", "m", "a", "z", "o", "n", " ", "V", "i", "r", "t", "u", "a", "l", " ", "P", "r", "i", "v", "a", "t", "e", " ", "C", "l", "o", "u", "d">>) @@
    ("VPC" :> <<"V", "P", "C">>) @@
    ("Amazon Elastic Compute Cloud" :> <<"A", "m", "a", "z", "o", "n", " ", "E", "l", "a", "s", "t", "i", "c", " ", "C", "o", "m", "p", "u", "t", "e", " ", "C", "l", "o", "u", "d">>) @@
    ("EC2" :> <<"E", "C", "2">>) @@
    ("Amazon Relational Database Service" :> <<"A", "m", "a", "z", "o", "n", " ", "R", "e", "l", "a", "t", "i", "o", "n", "a", "l", " ", "D", "a", "t", "a", "b", "a", "s", "e", " ", "S", "e", "r", "v", "i", "c", "e">>) @@
    ("Amazon Simple Storage Service" :> <<"A", "m", "a", "z", "o", "n", " ", "S", "i", "m", "p", "l", "e", " ", "S", "t", "o", "r", "a", "g", "e", " ", "S", "e", "r", "v", "i", "c", "e">>) @@
    ("S3" :> <<"S", "3">>) @@
    ("AWS Lambda" :> <<"A", "W", "S", " ", "L", "a", "m", "b", "d", "a">>) @@
    ("Amazon ElastiCache" :> <<"A", "m", "a", "z", "o", "n", " ", "E", "l", "a", "s", "t", "i", "C", "a", "c", "h", "e">>) @@
    ("Amazon CloudFront" :> <<"A", "m", "a", "z", "o", "n", " ", "C", "l", "o", "u", "d", "F", "r", "o", "n", "t">>) @@
    ("Elastic Compute Cloud" :> <<"E", "l", "a", "s", "t", "i", "c", " ", "C", "o", "m", "p", "u", "t", "e", " ", "C", "l", "o", "u", "d">>) @@
    ("Relational Database Service" :> <<"R", "e", "l", "a", "t", "i", "o", "n", "a", "l", " ", "D", "a", "t", "a", "b", "a", "s", "e", " ", "S", "e", "r", "v", "i", "c", "e">>) @@
    ("RDS" :> <<"R", "D", "S">>) @@
    ("Elastic Block Store" :> <<"E", "l", "a", "s", "t", "i", "c", " ", "B", "l", "o", "c", "k", " ", "S", "t", "o", "r", "e">>) @@
    ("Elastic Load Balancing" :> <<"E", "l", "a", "s", "t", "i", "c", " ", "L", "o", "a", "d", " ", "B", "a", "l", "a", "n", "c", "i", "n", "g">>) @@
    ("ELB" :> <<"E", "L", "B">>) @@
    ("Virtual Private Cloud" :> <<"V", "i", "r", "t", "u", "a", "l", " ", "P", "r", "i", "v", "a", "t", "e", " ", "C", "l", "o", "u", "d">>) @@
    ("ElastiCache" :> <<"E", "l", "a", "s", "t", "i", "C", "a", "c", "h", "e">>) @@
    ("Redshift" :> <<"R", "e", "d", "s", "h", "i", "f", "t">>) @@
    ("Lambda" :> <<"L", "a", "m", "b", "d", "a">>) @@
    ("CloudFront" :> <<"C", "l", "o", "u", "d", "F", "r", "o", "n", "t">>) @@
    ("Route 53" :> <<"R", "o", "u", "t", "e", " ", "5", "3">>) @@
    ("WAF" :> <<"W", "A", "F">>) @@
    ("NAT Gateway Hours" :> <<"N", "A", "T", " ", "G", "a", "t", "e", "w", "a", "y", " ", "H", "o", "u", "r", "s">>) @@
    ("Elastic IP Addresses" :> <<"E", "l", "a", "s", "t", "i", "c", " ", "I", "P", " ", "A", "d", "d", "r", "e", "s", "s", "e", "s">>) @@
    ("VPC Endpoints" :> <<"V", "P", "C", " ", "E", "n", "d", "p", "o", "i", "n", "t", "s">>) @@
    ("VPN Connection Hours" :> <<"V", "P", "N", " ", "C", "o", "n", "n", "e", "c", "t", "i", "o", "n", " ", "H", "o", "u", "r", "s">>) @@
    ("EC2 Instance - " :> <<"E", "C", "2", " ", "I", "n", "s", "t", "a", "n", "c", "e", " ", "-", " ">>) @@
    ("EC2 Instance Hours" :> <<"E", "C", "2", " ", "I", "n", "s", "t", "a", "n", "c", "e", " ", "H", "o", "u", "r", "s">>) @@
    ("EBS Volume Storage" :> <<"E", "B", "S", " ", "V", "o", "l", "u", "m", "e", " ", "S", "t", "o", "r", "a", "g", "e">>) @@
    ("EBS Snapshot Storage" :> <<"E", "B", "S", " ", "S", "n", "a", "p", "s", "h", "o", "t", " ", "S", "t", "o", "r", "a", "g", "e">>) @@
    ("EBS Provisioned IOPS" :> <<"E", "B", "S", " ", "P", "r", "o", "v", "i", "s", "i", "o", "n", "e", "d", " ", "I", "O", "P", "S">>) @@
    ("Data Transfer" :> <<"D", "a", "t", "a", " ", "T", "r", "a", "n", "s", "f", "e", "r">>) @@
    ("Load Balancer Hours" :> <<"L", "o", "a", "d", " ", "B", "a", "l", "a", "n", "c", "e", "r", " ", "H", "o", "u", "r", "s">>) @@
    ("RDS Instance - " :> <<"R", "D", "S", " ", "I", "n", "s", "t", "a", "n", "c", "e", " ", "-", " ">>) @@
    ("RDS Instance Hours" :> <<"R", "D", "S", " ", "I", "n", "s", "t", "a", "n", "c", "e", " ", "H", "o", "u", "r", "s">>) @@
    ("RDS Storage" :> <<"R", "D", "S", " ", "S", "t", "o", "r", "a", "g", "e">>) @@
    ("RDS Backup Storage" :> <<"R", "D", "S", " ", "B", "a", "c", "k", "u", "p", " ", "S", "t", "o", "r", "a", "g", "e">>) @@
    ("RDS Provisioned IOPS" :> <<"R", "D", "S", " ", "P", "r", "o", "v", "i", "s", "i", "o", "n", "e", "d", " ", "I", "O", "P", "S">>) @@
    ("S3 Storage" :> <<"S", "3", " ", "S", "t", "o", "r", "a", "g", "e">>) @@
    ("S3 Requests" :> <<"S", "3", " ", "R", "e", "q", "u", "e", "s", "t", "s">>) @@
    ("S3 Data Transfer" :> <<"S", "3", " ", "D", "a", "t", "a", " ", "T", "r", "a", "n", "s", "f", "e", "r">>) @@
    ("Lambda Requests" :> <<"L", "a", "m", "b", "d", "a", " ", "R", "e", "q", "u", "e", "s", "t", "s">>) @@
    ("Lambda Duration" :> <<"L", "a", "m", "b", "d", "a", " ", "D", "u", "r", "a", "t", "i", "o", "n">>) @@
    ("ElastiCache Node Hours" :> <<"E", "l", "a", "s", "t", "i", "C", "a", "c", "h", "e", " ", "N", "o", "d", "e", " ", "H", "o", "u", "r", "s">>) @@
    ("ElastiCache Backup Storage" :> <<"E", "l", "a", "s", "t", "i", "C", "a", "c", "h", "e", " ", "B", "a", "c", "k", "u", "p", " ", "S", "t", "o", "r", "a", "g", "e">>) @@
    ("CloudFront Data Transfer" :> <<"C", "l", "o", "u", "d", "F", "r", "o", "n", "t", " ", "D", "a", "t", "a", " ", "T", "r", "a", "n", "s", "f", "e", "r">>) @@
    ("CloudFront Requests" :> <<"C", "l", "o", "u", "d", "F", "r", "o", "n", "t", " ", "R", "e", "q", "u", "e", "s", "t", "s">>)

\* Service names and usage-type codes the billing fixtures use.
name ==
    ("EC2 - Other" :> <<"E", "C", "2", " ", "-", " ", "O", "t", "h", "e", "r">>) @@
    ("Amazon CloudFront" :> <<"A", "m", "a", "z", "o", "n", " ", "C", "l", "o", "u", "d", "F", "r", "o", "n", "t">>) @@
    ("Amazon Route 53" :> <<"A", "m", "a", "z", "o", "n", " ", "R", "o", "u", "t", "e", " ", "5", "3">>) @@
    ("AWS WAF" :> <<"A", "W", "S", " ", "W", "A", "F">>) @@
    ("Amazon Relational Database Service" :> <<"A", "m", "a", "z", "o", "n", " ", "R", "e", "l", "a", "t", "i", "o", "n", "a", "l", " ", "D", "a", "t", "a", "b", "a", "s", "e", " ", "S", "e", "r", "v", "i", "c", "e">>) @@
    ("Amazon Elastic Load Balancing" :> <<"A", "m", "a", "z", "o", "n", " ", "E", "l", "a", "s", "t", "i", "c", " ", "L", "o", "a", "d", " ", "B", "a", "l", "a", "n", "c", "i", "n", "g">>) @@
    ("Amazon Virtual Private Cloud" :> <<"A", "m", "a", "z", "o", "n", " ", "V", "i", "r", "t", "u", "a", "l", " ", "P", "r", "i", "v", "a", "t", "e", " ", "C", "l", "o", "u", "d">>) @@
    ("Amazon ElastiCache" :> <<"A", "m", "a", "z", "o", "n", " ", "E", "l", "a", "s", "t", "i", "C", "a", "c", "h", "e">>) @@
    ("Amazon Redshift" :> <<"A", "m", "a", "z", "o", "n", " ", "R", "e", "d", "s", "h", "i", "f", "t">>) @@
    ("AWS Lambda" :> <<"A", "W", "S", " ", "L", "a", "m", "b", "d", "a">>) @@
    ("Amazon Elastic Block Store" :> <<"A", "m", "a", "z", "o", "n", " ", "E", "l", "a", "s", "t", "i", "c", " ", "B", "l", "o", "c", "k", " ", "S", "t", "o", "r", "e">>) @@
    ("Tax" :> <<"T", "a", "x">>) @@
    ("USE1-BoxUsage:t3" :> <<"U", "S", "E", "1", "-", "B", "o", "x", "U", "s", "a", "g", "e", ":", "t", "3">>) @@
    ("BoxUsage:t3" :> <<"B", "o", "x", "U", "s", "a", "g", "e", ":", "t", "3">>) @@
    ("EUW1-NatGateway-Hours" :> <<"E", "U", "W", "1", "-", "N", "a", "t", "G", "a", "t", "e", "w", "a", "y", "-", "H", "o", "u", "r", "s">>) @@
    ("USE1-DataTransfer-Out-Bytes" :> <<"U", "S", "E", "1", "-", "D", "a", "t", "a", "T", "r", "a", "n", "s", "f", "e", "r", "-", "O", "u", "t", "-", "B", "y", "t", "e", "s">>) @@
    ("Tax-Fee" :> <<"T", "a", "x", "-", "F", "e", "e">>)

\* ------------------------------------------------------------ str helpers
\* s.startswith(p)
StartsWith(s, p) == Len(s) >= Len(p) /\ SubSeq(s, 1, Len(p)) = p

\* sub in s
Contains(s, sub) ==
    \E k \in 1..(Len(s) - Len(sub) + 1) : SubSeq(s, k, k + Len(sub) - 1) = sub

\* s.split(':'): the parts between the colons
RECURSIVE SplitOn(_, _, _)
SplitOn(s, sep, part) ==
    IF s = <<>> THEN <<part>>
    ELSE IF Head(s) = sep THEN <<part>> \o SplitOn(Tail(s), sep, <<>>)
         ELSE SplitOn(Tail(s), sep, Append(part, Head(s)))

split(s, sep) == SplitOn(s, sep, <<>>)

\* The prefix loop without its break: every leading prefix goes (a mutation).
RECURSIVE StripRegionPrefix_NoBreak(_, _)
StripRegionPrefix_NoBreak(cleaned, k) ==
    IF k > Len(region_prefixes) THEN cleaned
    ELSE IF StartsWith(cleaned, region_prefixes[k])
         THEN StripRegionPrefix_NoBreak(
                SubSeq(cleaned, Len(region_prefixes[k]) + 1, Len(cleaned)), 1)
         ELSE StripRegionPrefix_NoBreak(cleaned, k + 1)

\* ------------------------------------------------- clean_usage_type_name
\* for prefix in region_prefixes: strip the first one cleaned starts with
RECURSIVE StripRegionPrefix(_, _)
StripRegionPrefix(cleaned, k) ==
    IF k > Len(region_prefixes) THEN cleaned
    ELSE IF StartsWith(cleaned, region_prefixes[k])
         THEN SubSeq(cleaned, Len(region_prefixes[k]) + 1, Len(cleaned))
         ELSE StripRegionPrefix(cleaned, k + 1)

clean_usage_type_name(usage_type, service) ==
    LET cleaned == StripRegionPrefix(usage_type, 1)
        has(lit) == Contains(cleaned, str[lit])
        svc(lit) == Contains(service, str[lit])
        parts == split(cleaned, ":")
    IN IF svc("Amazon Virtual Private Cloud") \/ svc("VPC") THEN
            IF has("NatGateway") THEN str["NAT Gateway Hours"]
            ELSE IF has("PublicIP") THEN str["Elastic IP Addresses"]
            ELSE IF has("VpcEndpoint") THEN str["VPC Endpoints"]
            ELSE IF has("VPN") THEN str["VPN Connection Hours"]
            ELSE cleaned
       ELSE IF svc("Amazon Elastic Compute Cloud") \/ svc("EC2") THEN
            IF has("BoxUsage") THEN
                IF Len(parts) > 1 THEN str["EC2 Instance - "] \o parts[2]
                ELSE str["EC2 Instance Hours"]
            ELSE IF has("EBS") THEN
                IF has("VolumeUsage") THEN str["EBS Volume Storage"]
                ELSE IF has("SnapshotUsage") THEN str["EBS Snapshot Storage"]
                ELSE IF has("IOPS") THEN str["EBS Provisioned IOPS"]
                ELSE cleaned
            ELSE IF has("DataTransfer") THEN str["Data Transfer"]
            ELSE IF has("LoadBalancer") THEN str["Load Balancer Hours"]
            ELSE cleaned
       ELSE IF svc("Amazon Relational Database Service") THEN
            IF has("InstanceUsage") THEN
                IF Len(parts) > 1 THEN str["RDS Instance - "] \o parts[2]
                ELSE str["RDS Instance Hours"]
            ELSE IF has("StorageUsage") THEN str["RDS Storage"]
            ELSE IF has("BackupUsage") THEN str["RDS Backup Storage"]
            ELSE IF has("IOPS") THEN str["RDS Provisioned IOPS"]
            ELSE cleaned
       ELSE IF svc("Amazon Simple Storage Service") \/ svc("S3") THEN
            IF has("StorageUsage") THEN str["S3 Storage"]
            ELSE IF has("Requests") THEN str["S3 Requests"]
            ELSE IF has("DataTransfer") THEN str["S3 Data Transfer"]
            ELSE cleaned
       ELSE IF svc("AWS Lambda") THEN
            IF has("Request") THEN str["Lambda Requests"]
            ELSE IF has("Duration") THEN str["Lambda Duration"]
            ELSE cleaned
       ELSE IF svc("Amazon ElastiCache") THEN
            IF has("NodeUsage") THEN str["ElastiCache Node Hours"]
            ELSE IF has("BackupUsage") THEN str["ElastiCache Backup Storage"]
            ELSE cleaned
       ELSE IF svc("Amazon CloudFront") THEN
            IF has("DataTransfer") THEN str["CloudFront Data Transfer"]
            ELSE IF has("Request") THEN str["CloudFront Requests"]
            ELSE cleaned
       ELSE cleaned

\* ---------------------------------------- get_detailed_cost_explorer_data
\* Amounts are in thousandths of a dollar: '1.503' is 1503.

\* round(x, 2): to the nearest cent, a tie to the even cent
Round2(x) ==
    LET q == x \div 10
        r == x % 10
    IN IF r < 5 THEN 10 * q
       ELSE IF r > 5 THEN 10 * (q + 1)
       ELSE IF q % 2 = 0 THEN 10 * q ELSE 10 * (q + 1)

\* for result in response['ResultsByTime']: for group in result['Groups']
RECURSIVE Groups(_)
Groups(results_by_time) ==
    IF results_by_time = <<>> THEN <<>>
    ELSE Head(results_by_time) \o Groups(Tail(results_by_time))

\* The service-level loop over the groups still to process.
RECURSIVE ServiceLoop(_, _, _)
ServiceLoop(groups, cost_by_service, total_cost) ==
    IF groups = <<>>
    THEN [cost_by_service |-> cost_by_service, total_cost |-> total_cost]
    ELSE LET group == Head(groups)
         IN IF group.cost > 0
            THEN ServiceLoop(Tail(groups),
                             (group.service :> group.cost) @@ cost_by_service,
                             total_cost + group.cost)
            ELSE ServiceLoop(Tail(groups), cost_by_service, total_cost)

\* cost / usage_quantity as the fraction <<numerator, denominator>>
rate_per_unit(cost, usage_quantity) ==
    IF usage_quantity > 0 THEN <<cost, usage_quantity>> ELSE <<0, 1>>

\* The detailed loop: detailed_breakdown[service][clean_usage_type] = {...}
RECURSIVE DetailedLoop(_, _)
DetailedLoop(groups, detailed_breakdown) ==
    IF groups = <<>> THEN detailed_breakdown
    ELSE LET group == Head(groups)
             clean_usage_type == clean_usage_type_name(group.usage_type, group.service)
             entry == [cost |-> group.cost,
                       usage_quantity |-> group.usage_quantity,
                       usage_type_raw |-> group.usage_type,
                       rate_per_unit |-> rate_per_unit(group.cost, group.usage_quantity)]
             of_service == IF group.service \in DOMAIN detailed_breakdown
                           THEN detailed_breakdown[group.service]
                           ELSE <<>>
         IN IF group.cost > 0
            THEN DetailedLoop(Tail(groups),
                    (group.service :> ((clean_usage_type :> entry) @@ of_service))
                        @@ detailed_breakdown)
            ELSE DetailedLoop(Tail(groups), detailed_breakdown)

EmptyCostModel == [total_cost |-> 0, by_service |-> <<>>, detailed_breakdown |-> <<>>]

\* The cost model without the try around the queries' results: what the
\* responses hold is used whether or not a query raised (a mutation).
get_detailed_cost_explorer_data_Unguarded(billing) ==
    LET s == ServiceLoop(Groups(billing.service_response), <<>>, 0)
    IN [total_cost |-> Round2(s.total_cost),
        by_service |-> s.cost_by_service,
        detailed_breakdown |-> DetailedLoop(Groups(billing.detailed_response), <<>>)]

\* billing is [ok, service_response, detailed_response]: ok is FALSE when
\* either get_cost_and_usage call raises.
get_detailed_cost_explorer_data(billing) ==
    IF ~billing.ok THEN EmptyCostModel
    ELSE LET s == ServiceLoop(Groups(billing.service_response), <<>>, 0)
         IN [total_cost |-> Round2(s.total_cost),
             by_service |-> s.cost_by_service,
             detailed_breakdown |-> DetailedLoop(Groups(billing.detailed_response), <<>>)]

\* ------------------------------------------ get_charged_resources_in_region
\* An inventory call's response is [ok, items]: ok is FALSE when the call
\* raises; an item is [id, state].

\* any(lit in service for service in charged_services)
AnyCharged(charged_services, lits) ==
    \E service \in charged_services : \E lit \in lits : Contains(service, str[lit])

\* The items of a response as resource records, in the response's order.
RECURSIVE Records(_, _, _, _)
Records(items, service, resource_type, region) ==
    IF items = <<>> THEN <<>>
    ELSE <<[service |-> service, resource_type |-> resource_type,
            resource_id |-> Head(items).id, region |-> region]>>
         \o Records(Tail(items), service, resource_type, region)

\* One inventory wrapper (get_ec2_instances, ...): the records of the
\* response, or [] when the call raises.
Fetch(response, service, resource_type, region) ==
    IF response.ok THEN Records(response.items, service, resource_type, region)
    ELSE <<>>

\* get_nat_gateways keeps the gateways that are available or pending.
get_nat_gateways(response, region) ==
    Fetch([ok |-> response.ok,
           items |-> SelectSeq(response.items,
                               LAMBDA nat : nat.state \in {"available", "pending"})],
          "VPC", "NAT Gateway", region)

\* get_load_balancers with one try around both describe calls: a raise of the
\* first loses the classic load balancers (a mutation).
get_load_balancers_OneTry(inv, region) ==
    IF ~inv.elbv2.ok THEN <<>>
    ELSE Fetch(inv.elbv2, "ELB", "Load Balancer", region)
         \o Fetch(inv.elb, "ELB", "Classic Load Balancer", region)

\* get_load_balancers: the two describe calls fail independently.
get_load_balancers(inv, region) ==
    Fetch(inv.elbv2, "ELB", "Load Balancer", region)
    \o Fetch(inv.elb, "ELB", "Classic Load Balancer", region)

\* inv is the region's inventory: one response per describe/list call.
get_charged_resources_in_region(region, charged_services, inv) ==
    LET charged(lits) == AnyCharged(charged_services, lits)
        when(selected, resources) == IF selected THEN resources ELSE <<>>
    IN when(charged({"Elastic Compute Cloud", "EC2"}),
            Fetch(inv.instances, "EC2", "Instance", region))
       \o when(charged({"Relational Database Service", "RDS"}),
            Fetch(inv.db_instances, "RDS", "DB Instance", region))
       \o when(charged({"Elastic Block Store", "EBS"}),
            Fetch(inv.volumes, "EBS", "Volume", region))
       \o when(charged({"Elastic Load Balancing", "ELB"}),
            get_load_balancers(inv, region))
       \o when(charged({"Virtual Private Cloud", "VPC"}),
            get_nat_gateways(inv.nat_gateways, region)
            \o Fetch(inv.addresses, "VPC", "Elastic IP", region)
            \o Fetch(inv.vpc_endpoints, "VPC", "VPC Endpoint", region))
       \o when(charged({"ElastiCache"}),
            Fetch(inv.cache_clusters, "ElastiCache", "Cache Cluster", region))
       \o when(charged({"Redshift"}),
            Fetch(inv.clusters, "Redshift", "Cluster", region))
       \o when(charged({"Lambda"}),
            Fetch(inv.functions, "Lambda", "Function", region))

\* -------------------------------------------- get_global_charged_resources
\* ginv holds the responses of list_distributions, list_hosted_zones and
\* list_web_acls. A raise of the first two leaves the function through the
\* outer except; list_web_acls has a try of its own.
\* The global fetch with the list emptied by whichever fetch raises (a
\* mutation).
get_global_charged_resources_EmptyOnFailure(charged_services, ginv) ==
    LET cloudfront == AnyCharged(charged_services, {"CloudFront"})
        route53 == AnyCharged(charged_services, {"Route 53"})
        waf == AnyCharged(charged_services, {"WAF"})
    IN IF \/ cloudfront /\ ~ginv.distributions.ok
          \/ route53 /\ ~ginv.hosted_zones.ok
          \/ waf /\ ~ginv.web_acls.ok
       THEN <<>>
       ELSE (IF cloudfront
             THEN Fetch(ginv.distributions, "CloudFront", "Distribution", "global")
             ELSE <<>>)
            \o (IF route53
                THEN Fetch(ginv.hosted_zones, "Route53", "Hosted Zone", "global")
                ELSE <<>>)
            \o (IF waf THEN Fetch(ginv.web_acls, "WAF", "Web ACL", "global") ELSE <<>>)

get_global_charged_resources(charged_services, ginv) ==
    LET cloudfront == AnyCharged(charged_services, {"CloudFront"})
        route53 == AnyCharged(charged_services, {"Route 53"})
        waf == AnyCharged(charged_services, {"WAF"})
        distributions == IF cloudfront
                         THEN Fetch(ginv.distributions, "CloudFront", "Distribution", "global")
                         ELSE <<>>
        zones == IF route53
                 THEN Fetch(ginv.hosted_zones, "Route53", "Hosted Zone", "global")
                 ELSE <<>>
        acls == IF waf THEN Fetch(ginv.web_acls, "WAF", "Web ACL", "global") ELSE <<>>
    IN IF cloudfront /\ ~ginv.distributions.ok THEN <<>>
       ELSE IF route53 /\ ~ginv.hosted_zones.ok THEN distributions
       ELSE distributions \o zones \o acls

\* ------------------------------------------------ get_all_charged_resources
\* A dict is a sequence of [key, value] entries in insertion order, its keys
\* distinct.
Keys(dict) == {dict[k].key : k \in DOMAIN dict}

Get(dict, key) == dict[CHOOSE k \in DOMAIN dict : dict[k].key = key].value

\* An assignment that makes a new dict of the one entry instead of updating
\* the dict (a mutation).
Put_Fresh(dict, key, value) == <<[key |-> key, value |-> value]>>

\* dict[key] = value
Put(dict, key, value) ==
    IF key \in Keys(dict)
    THEN [k \in DOMAIN dict |->
            IF dict[k].key = key THEN [key |-> key, value |-> value] ELSE dict[k]]
    ELSE Append(dict, [key |-> key, value |-> value])

\* The loop body without its test of the result: an empty result is stored
\* too (a mutation).
Collect_StoresEmpty(by_region, region, resources) == Put(by_region, region, resources)

\* The body of the as_completed loop for one completed future.
Collect(by_region, region, resources) ==
    IF resources # <<>> THEN Put(by_region, region, resources)
    ELSE by_region

\* The lines after the pool has shut down: the global fetch and the return.
FleetReturn(by_region, global_resources) ==
    [region_resources |-> IF global_resources # <<>>
                          THEN Put(by_region, "global", global_resources)
                          ELSE by_region,
     global_resources |-> global_resources]

\* The as_completed loop over the futures in the order they are yielded.
RECURSIVE CollectAll(_, _, _, _)
CollectAll(order, charged_services, inventory, by_region) ==
    IF order = <<>> THEN by_region
    ELSE CollectAll(Tail(order), charged_services, inventory,
            Collect(by_region, Head(order),
                    get_charged_resources_in_region(Head(order), charged_services,
                                                    inventory[Head(order)])))

\* fleet is the account's inventory: [regions, inventory, responds, global];
\* regions_ok is FALSE when describe_regions raises; order is the order in which as_completed yields the regions.
\* The call returns only when every region task completes.
get_all_charged_resources(charged_services, regions_ok, fleet, order) ==
    IF ~regions_ok THEN [region_resources |-> <<>>, global_resources |-> <<>>]
    ELSE FleetReturn(CollectAll(order, charged_services, fleet.inventory, <<>>),
                     get_global_charged_resources(charged_services, fleet.global))

\* The orders in which the futures of the regions can be yielded.
Orders(regions) ==
    {order \in [1..Len(regions) -> Range(regions)] : Range(order) = Range(regions)}

\* ---------------------------------------------------------------- state
VARIABLES
    \* the environment of one calendar day
    RECIPIENT_EMAILS,   \* the module global: a list of addresses
    billing,            \* what Cost Explorer answers: [service_response, detailed_response]
    fleet,              \* the account's inventory: [regions, inventory, responds, global]
    s3,                 \* the bucket: key -> <<>> (no object) or <<body>>
    \* lambda_handler, per invocation
    pc,                 \* where the invocation is
    lookup,             \* what head_object did in already_processed_today
    processed,          \* what already_processed_today returned
    cost_data,          \* what get_detailed_cost_explorer_data returned
    fleet_result,       \* what get_all_charged_resources returned
    charged_resources,  \* the report
    response,           \* what lambda_handler returned
    calls,              \* the external calls the invocation has made, in order
    disturbed,          \* a marker lookup or marker write failed, or invocations overlapped
    \* send_email_report on its own
    email_args,         \* what the SES client does in the call
    email_ret,          \* what send_email_report returned, or <<>>
    \* get_all_charged_resources on its own, the pool's threads interleaved
    fleet_args,         \* charged_services
    fleet_pc,           \* where the coordinating thread is
    futures,            \* region -> "queued", "running" or "done"
    yielded,            \* the regions as_completed has yielded, in order
    region_resources,   \* the dict the coordinating thread fills
    fleet_ret,          \* what get_all_charged_resources returned, or <<>>
    \* get_detailed_cost_explorer_data on its own
    cost_ret,           \* what get_detailed_cost_explorer_data returned, or <<>>
    \* get_charged_resources_in_region and clean_usage_type_name on their own
    region_args,        \* [region, charged_services, inv]
    region_ret,         \* what get_charged_resources_in_region returned, or <<>>
    clean_args,         \* [usage_type, service]
    clean_ret           \* what clean_usage_type_name returned, or <<>>

envVars == <<RECIPIENT_EMAILS, billing, fleet>>
handlerVars == <<s3, pc, lookup, processed, cost_data, fleet_result, charged_resources,
                 response, calls, disturbed>>
emailVars == <<email_args, email_ret>>
fleetVars == <<fleet_args, fleet_pc, futures, yielded, region_resources, fleet_ret>>
costVars == <<cost_ret>>
pureVars == <<region_args, region_ret, clean_args, clean_ret>>
vars == <<envVars, handlerVars, emailVars, fleetVars, costVars, pureVars>>

Invocations == 1..NumInvocations

None == <<>>

\* ------------------------------------------------------------- fixtures
Ok(items) == [ok |-> TRUE, items |-> items]
Raises == [ok |-> FALSE, items |-> <<>>]
Item(id, state) == [id |-> id, state |-> state]

EmptyRegion ==
    [instances |-> Ok(<<>>), db_instances |-> Ok(<<>>), volumes |-> Ok(<<>>),
     elbv2 |-> Ok(<<>>), elb |-> Ok(<<>>), nat_gateways |-> Ok(<<>>),
     addresses |-> Ok(<<>>), vpc_endpoints |-> Ok(<<>>), cache_clusters |-> Ok(<<>>),
     clusters |-> Ok(<<>>), functions |-> Ok(<<>>)]

EmptyGlobal ==
    [distributions |-> Ok(<<>>), hosted_zones |-> Ok(<<>>), web_acls |-> Ok(<<>>)]

Group(service, cost) == [service |-> name[service], cost |-> cost]

Usage(service, usage_type, cost, usage_quantity) ==
    [service |-> name[service], usage_type |-> name[usage_type], cost |-> cost,
     usage_quantity |-> usage_quantity]

\* Nothing is charged: a zero line and a refund.
BillingNothing ==
    [service_response |-> <<<<Group("Tax", 0), Group("Amazon CloudFront", -1500)>>>>,
     detailed_response |-> <<<<Usage("Tax", "Tax-Fee", 0, 0)>>>>]

\* EC2 is charged.
BillingRegional ==
    [service_response |->
        <<<<Group("EC2 - Other", 2502), Group("Tax", 0)>>>>,
     detailed_response |->
        <<<<Usage("EC2 - Other", "USE1-BoxUsage:t3", 2502, 24)>>>>]

\* EC2 and CloudFront are charged.
BillingGlobal ==
    [service_response |->
        <<<<Group("EC2 - Other", 2502),
            Group("Amazon CloudFront", 4)>>>>,
     detailed_response |->
        <<<<Usage("EC2 - Other", "BoxUsage:t3", 2502, 24),
            Usage("Amazon CloudFront", "USE1-DataTransfer-Out-Bytes", 4, 0)>>>>]

\* Instances in both regions and one CloudFront distribution.
FleetBoth ==
    [regions |-> <<"us-east-1", "eu-west-1">>,
     inventory |->
        ("us-east-1" :> [EmptyRegion EXCEPT !.instances = Ok(<<Item("i-1", "running"),
                                                               Item("i-2", "stopped")>>)]) @@
        ("eu-west-1" :> [EmptyRegion EXCEPT !.instances = Ok(<<Item("i-3", "running")>>)]),
     responds |-> ("us-east-1" :> TRUE) @@ ("eu-west-1" :> TRUE),
     global |-> [EmptyGlobal EXCEPT !.distributions = Ok(<<Item("d-1", "Deployed")>>)]]

\* Instances in one region, describe_instances raising in the other, no
\* distribution.
FleetOne ==
    [regions |-> <<"us-east-1", "eu-west-1">>,
     inventory |->
        ("us-east-1" :> [EmptyRegion EXCEPT !.instances = Ok(<<Item("i-1", "running")>>)]) @@
        ("eu-west-1" :> [EmptyRegion EXCEPT !.instances = Raises]),
     responds |-> ("us-east-1" :> TRUE) @@ ("eu-west-1" :> TRUE),
     global |-> EmptyGlobal]

\* As FleetBoth, with a region whose scan never completes.
FleetHang == [FleetBoth EXCEPT !.responds["eu-west-1"] = FALSE]

\* os.environ.get('RECIPIENT_EMAILS', '').split(','): unset, 'a' and 'a, a'
RecipientsUnset == <<>>
RecipientsOne == <<"a">>
RecipientsTwo == <<"a", ",", " ", "a">>

\* The days the handler is run on: <<billing, fleet, RECIPIENT_EMAILS variable>>
Scenarios ==
    {<<BillingNothing, FleetOne, RecipientsTwo>>,
     <<BillingRegional, FleetOne, RecipientsUnset>>,
     <<BillingGlobal, FleetBoth, RecipientsOne>>,
     <<BillingGlobal, FleetHang, RecipientsUnset>>}

\* -------------------------------------------------------------- storage
MarkerKey == "executions"
ReportKey == "reports"

\* What head_object can do: succeed only on an object that is there, answer
\* 404 only when it is not, and fail any other way at any time.
HeadOutcomes(bucket) ==
    (IF bucket[MarkerKey] # None THEN {"found"} ELSE {"404"}) \cup {"client_error", "exception"}

\* A gate that takes every answer but 'not found' for a marker (a mutation).
already_processed_today_UnlessNotFound(outcome) == outcome # "404"

\* already_processed_today's return value for what head_object did
already_processed_today(outcome) == outcome = "found"

\* ------------------------------------------------------- lambda_handler
Init ==
    /\ \E scenario \in Scenarios :
        /\ billing = scenario[1]
        /\ fleet = scenario[2]
        /\ RECIPIENT_EMAILS = split(scenario[3], ",")
    /\ s3 = (MarkerKey :> None) @@ (ReportKey :> None)
    /\ pc = [i \in Invocations |-> "start"]
    /\ lookup = [i \in Invocations |-> "none"]
    /\ processed = [i \in Invocations |-> FALSE]
    /\ cost_data = [i \in Invocations |-> None]
    /\ fleet_result = [i \in Invocations |-> None]
    /\ charged_resources = [i \in Invocations |-> None]
    /\ response = [i \in Invocations |-> None]
    /\ calls = [i \in Invocations |-> <<>>]
    /\ disturbed = FALSE
    /\ email_args = None
    /\ email_ret = None
    /\ fleet_args = None /\ fleet_pc = None /\ futures = None /\ yielded = None
    /\ region_resources = None /\ fleet_ret = None
    /\ cost_ret = None
    /\ region_args = None /\ region_ret = None /\ clean_args = None /\ clean_ret = None

Call(i, what) == calls' = [calls EXCEPT ![i] = calls[i] \o what]

\* Line 33, the call: already_processed_today(execution_id).
CheckProcessed(i) ==
    /\ pc[i] = "start"
    /\ \E outcome \in HeadOutcomes(s3) :
        /\ lookup' = [lookup EXCEPT ![i] = outcome]
        /\ processed' = [processed EXCEPT ![i] = already_processed_today(outcome)]
        /\ disturbed' = (\/ disturbed
                         \/ outcome \in {"client_error", "exception"}
                         \/ \E j \in Invocations \ {i} : pc[j] \notin {"start", "done"})
    /\ pc' = [pc EXCEPT ![i] = "gate"]
    /\ Call(i, <<"head_object">>)
    /\ UNCHANGED <<envVars, emailVars, fleetVars, costVars, pureVars, s3, cost_data, fleet_result, charged_resources,
                   response>>

\* Lines 33-42: the short circuit.
ShortCircuit(i) ==
    /\ pc[i] = "gate"
    /\ processed[i]
    /\ response' = [response EXCEPT ![i] =
                        [statusCode |-> 200, message |-> "Report already sent today"]]
    /\ pc' = [pc EXCEPT ![i] = "done"]
    /\ lookup' = [lookup EXCEPT ![i] = "none"]
    /\ UNCHANGED <<envVars, emailVars, fleetVars, costVars, pureVars, s3, processed, cost_data, fleet_result,
                   charged_resources, calls, disturbed>>

\* The two get_cost_and_usage calls of lines 221-254 as call names: the
\* service-level query, then the detailed one; raised is the query that
\* raises (0 when neither does), and no query follows one that raised.
CostCalls(raised) ==
    IF raised = 0 THEN <<"get_cost_and_usage", "get_cost_and_usage">>
    ELSE [k \in 1..raised |->
            IF k = raised THEN "get_cost_and_usage raised" ELSE "get_cost_and_usage"]

\* The cost fetch of a handler that ignores the gate's answer (a mutation).
FetchCost_Unguarded(i) ==
    /\ pc[i] = "gate"
    /\ \E raised \in 0..2 :
        /\ cost_data' = [cost_data EXCEPT ![i] =
            get_detailed_cost_explorer_data(
                [ok |-> raised = 0, service_response |-> billing.service_response,
                 detailed_response |-> billing.detailed_response])]
        /\ Call(i, CostCalls(raised))
    /\ pc' = [pc EXCEPT ![i] = "scan"]
    /\ lookup' = [lookup EXCEPT ![i] = "none"]
    /\ UNCHANGED <<envVars, emailVars, fleetVars, costVars, pureVars, s3, processed, fleet_result, charged_resources,
                   response, disturbed>>

\* Lines 61-66: get_detailed_cost_explorer_data(); either query may raise.
FetchCost(i) ==
    /\ pc[i] = "gate"
    /\ ~processed[i]
    /\ \E raised \in 0..2 :
        /\ cost_data' = [cost_data EXCEPT ![i] =
            get_detailed_cost_explorer_data(
                [ok |-> raised = 0, service_response |-> billing.service_response,
                 detailed_response |-> billing.detailed_response])]
        /\ Call(i, CostCalls(raised))
    /\ pc' = [pc EXCEPT ![i] = "scan"]
    /\ lookup' = [lookup EXCEPT ![i] = "none"]
    /\ UNCHANGED <<envVars, emailVars, fleetVars, costVars, pureVars, s3, processed, fleet_result, charged_resources,
                   response, disturbed>>

charged_services(i) == DOMAIN cost_data[i].by_service

\* The fleet scan without the test of charged_services (a mutation).
ScanFleet_Always(i) ==
    /\ pc[i] = "scan"
    /\ \E regions_ok \in BOOLEAN :
        /\ regions_ok => \A region \in Range(fleet.regions) : fleet.responds[region]
        /\ \E order \in Orders(fleet.regions) :
            fleet_result' = [fleet_result EXCEPT ![i] =
                get_all_charged_resources(charged_services(i), regions_ok, fleet, order)]
        /\ Call(i, <<"describe_regions">>
                   \o (IF regions_ok THEN <<"inventory">> ELSE <<>>))
    /\ pc' = [pc EXCEPT ![i] = "assemble"]
    /\ UNCHANGED <<envVars, emailVars, fleetVars, costVars, pureVars, s3, lookup, processed, cost_data, charged_resources,
                   response, disturbed>>

\* Lines 68-74: get_all_charged_resources(charged_services) when a service is
\* charged. describe_regions may raise; the call does not return while a
\* region task has not completed.
ScanFleet(i) ==
    /\ pc[i] = "scan"
    /\ IF charged_services(i) = {}
       THEN /\ fleet_result' = [fleet_result EXCEPT ![i] =
                    [region_resources |-> <<>>, global_resources |-> <<>>]]
            /\ UNCHANGED calls
       ELSE \E regions_ok \in BOOLEAN :
            /\ regions_ok => \A region \in Range(fleet.regions) : fleet.responds[region]
            /\ \E order \in Orders(fleet.regions) :
                fleet_result' = [fleet_result EXCEPT ![i] =
                    get_all_charged_resources(charged_services(i), regions_ok, fleet, order)]
            /\ Call(i, <<"describe_regions">>
                       \o (IF regions_ok THEN <<"inventory">> ELSE <<>>))
    /\ pc' = [pc EXCEPT ![i] = "assemble"]
    /\ UNCHANGED <<envVars, emailVars, fleetVars, costVars, pureVars, s3, lookup, processed, cost_data, charged_resources,
                   response, disturbed>>

\* for region, resources in region_resources.items(): extend
RECURSIVE Flatten(_)
Flatten(by_region) ==
    IF by_region = <<>> THEN <<>>
    ELSE Head(by_region).value \o Flatten(Tail(by_region))

\* Lines 44-90: the report from the cost model and the fleet scan.
Report(cost, scanned) ==
    LET detailed_resources ==
            scanned.global_resources \o Flatten(scanned.region_resources)
    IN [total_cost |-> cost.total_cost,
        resources_by_service |-> cost.by_service,
        detailed_cost_breakdown |-> cost.detailed_breakdown,
        resources_by_region |-> scanned.region_resources,
        detailed_resources |-> detailed_resources,
        processing_stats |-> [regions_checked |-> Len(scanned.region_resources),
                              resources_found |-> Len(detailed_resources)]]

Assemble(i) ==
    /\ pc[i] = "assemble"
    /\ charged_resources' = [charged_resources EXCEPT ![i] =
                                Report(cost_data[i], fleet_result[i])]
    /\ pc' = [pc EXCEPT ![i] = "mark"]
    /\ UNCHANGED <<envVars, emailVars, fleetVars, costVars, pureVars, s3, lookup, processed, cost_data, fleet_result,
                   response, calls, disturbed>>

\* A put_object call as a call name.
PutCall(ok) == <<IF ok THEN "put_object" ELSE "put_object raised">>

\* mark_as_processed's summary of the report
Summary(report_data) ==
    [total_cost |-> report_data.total_cost,
     resources_count |-> Len(report_data.detailed_resources),
     processing_stats |-> report_data.processing_stats]

\* The put of the execution record under the full report's key (a mutation).
MarkExecution_WrongKey(i) ==
    /\ pc[i] = "mark"
    /\ \E ok \in BOOLEAN :
        /\ s3' = IF ok THEN [s3 EXCEPT ![ReportKey] = <<Summary(charged_resources[i])>>]
                 ELSE s3
        /\ pc' = [pc EXCEPT ![i] = IF ok THEN "mark_report" ELSE "send"]
        /\ disturbed' = (disturbed \/ ~ok)
        /\ Call(i, PutCall(ok))
    /\ UNCHANGED <<envVars, emailVars, fleetVars, costVars, pureVars, lookup, processed, cost_data, fleet_result,
                   charged_resources, response>>

\* The put of the execution record without the try around it: a raise reaches
\* lambda_handler's except (a mutation).
MarkExecution_Raises(i) ==
    /\ pc[i] = "mark"
    /\ \E ok \in BOOLEAN :
        /\ s3' = IF ok THEN [s3 EXCEPT ![MarkerKey] = <<Summary(charged_resources[i])>>]
                 ELSE s3
        /\ pc' = [pc EXCEPT ![i] = IF ok THEN "mark_report" ELSE "done"]
        /\ response' = IF ok THEN response
                       ELSE [response EXCEPT ![i] =
                                [statusCode |-> 500,
                                 message |-> "Failed to retrieve charged resources"]]
        /\ disturbed' = (disturbed \/ ~ok)
        /\ Call(i, PutCall(ok))
    /\ UNCHANGED <<envVars, emailVars, fleetVars, costVars, pureVars, lookup, processed, cost_data, fleet_result,
                   charged_resources>>

\* A handler that sends the report before it writes the execution record (a
\* mutation).
MarkExecution_AfterSend(i) ==
    /\ pc[i] = "mark"
    /\ \E ok \in BOOLEAN :
        /\ s3' = IF ok THEN [s3 EXCEPT ![MarkerKey] = <<Summary(charged_resources[i])>>]
                 ELSE s3
        /\ pc' = [pc EXCEPT ![i] = IF ok THEN "mark_report" ELSE "send"]
        /\ disturbed' = (disturbed \/ ~ok)
        /\ Call(i, <<"send_email_report">> \o PutCall(ok))
    /\ UNCHANGED <<envVars, emailVars, fleetVars, costVars, pureVars, lookup, processed, cost_data, fleet_result,
                   charged_resources, response>>

\* Lines 148-154: the put of the execution record. When it raises,
\* mark_as_processed logs and returns, the second put not made.
MarkExecution(i) ==
    /\ pc[i] = "mark"
    /\ \E ok \in BOOLEAN :
        /\ s3' = IF ok THEN [s3 EXCEPT ![MarkerKey] = <<Summary(charged_resources[i])>>]
                 ELSE s3
        /\ pc' = [pc EXCEPT ![i] = IF ok THEN "mark_report" ELSE "send"]
        /\ disturbed' = (disturbed \/ ~ok)
        /\ Call(i, PutCall(ok))
    /\ UNCHANGED <<envVars, emailVars, fleetVars, costVars, pureVars, lookup, processed, cost_data, fleet_result,
                   charged_resources, response>>

\* Lines 156-168: the put of the full report; a raise is logged and swallowed.
MarkReport(i) ==
    /\ pc[i] = "mark_report"
    /\ \E ok \in BOOLEAN :
        /\ s3' = IF ok THEN [s3 EXCEPT ![ReportKey] = <<charged_resources[i]>>] ELSE s3
        /\ Call(i, PutCall(ok))
    /\ pc' = [pc EXCEPT ![i] = "send"]
    /\ UNCHANGED <<envVars, emailVars, fleetVars, costVars, pureVars, lookup, processed, cost_data, fleet_result,
                   charged_resources, response, disturbed>>

\* The send_email calls of a send_email_report result, as call names.
SendCalls(sent) == [k \in DOMAIN sent.calls |-> "send_email"]

\* The send without send_email_report's try around the preparation of the
\* message: a raise there reaches lambda_handler's except (a mutation).
SendAndReturn_Raises(i) ==
    /\ pc[i] = "send"
    /\ \E prepared \in BOOLEAN :
       \E ses \in [1..Len(RECIPIENT_EMAILS) -> {"ok", "raise"}] :
        LET sent == send_email_report(RECIPIENT_EMAILS, prepared, ses)
        IN /\ response' = [response EXCEPT ![i] =
                            IF prepared
                            THEN [statusCode |-> 200, email_sent |-> sent.result]
                            ELSE [statusCode |-> 500,
                                  message |-> "Failed to retrieve charged resources"]]
           /\ Call(i, <<"send_email_report">> \o SendCalls(sent))
    /\ pc' = [pc EXCEPT ![i] = "done"]
    /\ cost_data' = [cost_data EXCEPT ![i] = None]
    /\ fleet_result' = [fleet_result EXCEPT ![i] = None]
    /\ charged_resources' = [charged_resources EXCEPT ![i] = None]
    /\ UNCHANGED <<envVars, emailVars, fleetVars, costVars, pureVars, s3, lookup, processed, disturbed>>

\* Lines 97-104: send_email_report(charged_resources) and the return, which
\* ends the life of the handler's locals.
SendAndReturn(i) ==
    /\ pc[i] = "send"
    /\ \E prepared \in BOOLEAN :
       \E ses \in [1..Len(RECIPIENT_EMAILS) -> {"ok", "raise"}] :
        LET sent == send_email_report(RECIPIENT_EMAILS, prepared, ses)
        IN /\ response' = [response EXCEPT ![i] =
                            [statusCode |-> 200, email_sent |-> sent.result]]
           /\ Call(i, <<"send_email_report">> \o SendCalls(sent))
    /\ pc' = [pc EXCEPT ![i] = "done"]
    /\ cost_data' = [cost_data EXCEPT ![i] = None]
    /\ fleet_result' = [fleet_result EXCEPT ![i] = None]
    /\ charged_resources' = [charged_resources EXCEPT ![i] = None]
    /\ UNCHANGED <<envVars, emailVars, fleetVars, costVars, pureVars, s3, lookup, processed, disturbed>>

lambda_handler(i) ==
    \/ CheckProcessed(i)
    \/ ShortCircuit(i)
    \/ FetchCost(i)
    \/ ScanFleet(i)
    \/ Assemble(i)
    \/ MarkExecution(i)
    \/ MarkReport(i)
    \/ SendAndReturn(i)

Next == \E i \in Invocations : lambda_handler(i)

Spec == Init /\ [][Next]_vars

\* ------------------------------------------------------------- RaiseSpec
\* lambda_handler when a statement of its own, between the calls of its
\* collaborators, may raise: lines 106-114 answer with statusCode 500.

Failed == [statusCode |-> 500, message |-> "Failed to retrieve charged resources"]

\* A statement of the try block raises: before the next collaborator is
\* called, or (lines 99-104) after send_email_report has returned.
HandlerRaises(i) ==
    /\ \/ /\ pc[i] \in {"start", "gate", "scan", "assemble", "mark"}
          /\ UNCHANGED calls
       \/ /\ pc[i] = "send"
          /\ \E prepared \in BOOLEAN :
             \E ses \in [1..Len(RECIPIENT_EMAILS) -> {"ok", "raise"}] :
                Call(i, <<"send_email_report">>
                        \o SendCalls(send_email_report(RECIPIENT_EMAILS, prepared, ses)))
    /\ response' = [response EXCEPT ![i] = Failed]
    /\ pc' = [pc EXCEPT ![i] = "done"]
    /\ lookup' = [lookup EXCEPT ![i] = "none"]
    /\ cost_data' = [cost_data EXCEPT ![i] = None]
    /\ fleet_result' = [fleet_result EXCEPT ![i] = None]
    /\ charged_resources' = [charged_resources EXCEPT ![i] = None]
    /\ UNCHANGED <<envVars, emailVars, fleetVars, costVars, pureVars, s3, processed, disturbed>>

RaiseNext == Next \/ \E i \in Invocations : HandlerRaises(i)

RaiseSpec == Init /\ [][RaiseNext]_vars


\* ------------------------------------------------------------- EmailSpec
EmailInit ==
    /\ RECIPIENT_EMAILS \in SeqsUpTo(Addresses, MaxRecipients)
    /\ email_args \in [prepared : BOOLEAN,
                       ses : [1..Len(RECIPIENT_EMAILS) -> {"ok", "raise"}]]
    /\ email_ret = None
    /\ billing = None /\ fleet = None
    /\ s3 = None /\ pc = None /\ lookup = None /\ processed = None /\ cost_data = None
    /\ fleet_result = None /\ charged_resources = None /\ response = None
    /\ calls = None /\ disturbed = FALSE
    /\ fleet_args = None /\ fleet_pc = None /\ futures = None /\ yielded = None
    /\ region_resources = None /\ fleet_ret = None
    /\ cost_ret = None
    /\ region_args = None /\ region_ret = None /\ clean_args = None /\ clean_ret = None

EmailCall ==
    /\ email_ret = None
    /\ email_ret' = <<send_email_report(RECIPIENT_EMAILS, email_args.prepared, email_args.ses)>>
    /\ UNCHANGED <<envVars, handlerVars, fleetVars, costVars, pureVars, email_args>>

EmailNext == EmailCall

EmailSpec == EmailInit /\ [][EmailNext]_vars


\* ------------------------------------------------------------- FleetSpec
\* get_all_charged_resources with its thread pool: the coordinating thread
\* and the region tasks take their steps in any order.
RegionNames == <<"us-east-1", "eu-west-1", "ap-southeast-2", "sa-east-1">>
Regions == {RegionNames[k] : k \in 1..NumRegions}

\* What one region can hold: nothing, two instances, or two volumes behind a
\* describe_instances that raises.
RegionInventories ==
    {EmptyRegion,
     [EmptyRegion EXCEPT !.instances = Ok(<<Item("i-1", "running"), Item("i-2", "stopped")>>)],
     [EmptyRegion EXCEPT !.instances = Raises,
                         !.volumes = Ok(<<Item("vol-1", "in-use")>>)]}

\* What the three global services answer: nothing at all, or each of them
\* either one resource or a raise.
GlobalInventories ==
    {EmptyGlobal} \cup
    [distributions : {Ok(<<Item("d-1", "Deployed")>>), Raises},
     hosted_zones : {Ok(<<Item("z-1", "zone")>>), Raises},
     web_acls : {Ok(<<Item("acl-1", "active")>>), Raises}]

ChargedSets ==
    {{name["EC2 - Other"]},
     {name["EC2 - Other"], name["Amazon CloudFront"], name["Amazon Route 53"],
      name["AWS WAF"]}}

\* At most one region whose scan never completes.
Responds ==
    {responds \in [Regions -> BOOLEAN] :
        Cardinality({region \in Regions : ~responds[region]}) <= 1}

FleetInit ==
    /\ \E inventory \in [Regions -> RegionInventories] :
       \E responds \in Responds :
       \E global \in GlobalInventories :
        fleet = [regions |-> SubSeq(RegionNames, 1, NumRegions), inventory |-> inventory,
                 responds |-> responds, global |-> global]
    /\ fleet_args \in ChargedSets
    /\ fleet_pc = "describe_regions"
    /\ futures = [region \in Regions |-> "none"]
    /\ yielded = <<>>
    /\ region_resources = <<>>
    /\ fleet_ret = None
    /\ RECIPIENT_EMAILS = None /\ billing = None
    /\ s3 = None /\ pc = None /\ lookup = None /\ processed = None /\ cost_data = None
    /\ fleet_result = None /\ charged_resources = None /\ response = None
    /\ calls = None /\ disturbed = FALSE
    /\ email_args = None /\ email_ret = None
    /\ cost_ret = None
    /\ region_args = None /\ region_ret = None /\ clean_args = None /\ clean_ret = None

\* Lines 172-185: describe_regions, then one task submitted per region. When
\* describe_regions raises the call returns ({}, []).
DescribeAndSubmit ==
    /\ fleet_pc = "describe_regions"
    /\ \E ok \in BOOLEAN :
        IF ok
        THEN /\ futures' = [region \in Regions |-> "queued"]
             /\ fleet_pc' = "as_completed"
             /\ UNCHANGED fleet_ret
        ELSE /\ fleet_ret' = <<[region_resources |-> <<>>, global_resources |-> <<>>]>>
             /\ fleet_pc' = "returned"
             /\ UNCHANGED futures
    /\ UNCHANGED <<envVars, handlerVars, emailVars, costVars, pureVars, fleet_args, yielded, region_resources>>

\* A worker thread takes the task submitted first among those still queued.
StartTask(region) ==
    /\ futures[region] = "queued"
    /\ Cardinality({r \in Regions : futures[r] = "running"}) < MAX_WORKERS
    /\ \A k \in 1..Len(fleet.regions) :
        fleet.regions[k] = region =>
            \A j \in 1..(k - 1) : futures[fleet.regions[j]] # "queued"
    /\ futures' = [futures EXCEPT ![region] = "running"]
    /\ UNCHANGED <<envVars, handlerVars, emailVars, costVars, pureVars, fleet_args, fleet_pc, yielded,
                   region_resources, fleet_ret>>

\* get_charged_resources_in_region returns in a region that responds.
FinishTask(region) ==
    /\ futures[region] = "running"
    /\ fleet.responds[region]
    /\ futures' = [futures EXCEPT ![region] = "done"]
    /\ UNCHANGED <<envVars, handlerVars, emailVars, costVars, pureVars, fleet_args, fleet_pc, yielded,
                   region_resources, fleet_ret>>

\* Lines 188-196: as_completed yields a completed future and the loop body
\* takes its result.
CollectFuture(region) ==
    /\ fleet_pc = "as_completed"
    /\ futures[region] = "done"
    /\ region \notin Range(yielded)
    /\ yielded' = Append(yielded, region)
    /\ region_resources' =
        Collect(region_resources, region,
                get_charged_resources_in_region(region, fleet_args, fleet.inventory[region]))
    /\ UNCHANGED <<envVars, handlerVars, emailVars, costVars, pureVars, fleet_args, fleet_pc, futures, fleet_ret>>

\* Lines 198-203: as_completed has yielded every future, the pool shuts down,
\* then the global fetch and the return.
GlobalAndReturn ==
    /\ fleet_pc = "as_completed"
    /\ Range(yielded) = Regions
    /\ fleet_ret' = <<FleetReturn(region_resources,
                                  get_global_charged_resources(fleet_args, fleet.global))>>
    /\ region_resources' = fleet_ret'[1].region_resources
    /\ fleet_pc' = "returned"
    /\ UNCHANGED <<envVars, handlerVars, emailVars, costVars, pureVars, fleet_args, futures, yielded>>

FleetNext ==
    \/ DescribeAndSubmit
    \/ \E region \in Regions : StartTask(region)
    \/ \E region \in Regions : FinishTask(region)
    \/ \E region \in Regions : CollectFuture(region)
    \/ GlobalAndReturn

FleetSpec == FleetInit /\ [][FleetNext]_vars

\* -------------------------------------------------------------- CostSpec
\* get_detailed_cost_explorer_data over billing responses: both responses
\* cover the same period, so they have the same number of time buckets.

\* A bucket of the service-level response: each service at most once.
ServiceBuckets ==
    LET ec2 == {<<>>} \cup {<<Group("EC2 - Other", cost)>> : cost \in {-1500, 0, 1004, 2002}}
        tax == {<<>>} \cup {<<Group("Tax", cost)>> : cost \in {-1500, 2002}}
    IN {e \o t : e \in ec2, t \in tax}

\* A bucket of the detailed response: no line, a charged line with a region
\* prefix, a charged line without one and no usage, or a refund.
DetailedBuckets ==
    {<<>>,
     <<Usage("EC2 - Other", "USE1-BoxUsage:t3", 2002, 2)>>,
     <<Usage("EC2 - Other", "BoxUsage:t3", 1004, 0)>>,
     <<Usage("Tax", "Tax-Fee", -1500, 0)>>}

BillingResponses ==
    UNION {[service_response : [1..n -> ServiceBuckets],
            detailed_response : [1..n -> DetailedBuckets]] : n \in 0..MaxBuckets}

CostInit ==
    /\ billing \in BillingResponses
    /\ cost_ret = None
    /\ region_args = None /\ region_ret = None /\ clean_args = None /\ clean_ret = None
    /\ RECIPIENT_EMAILS = None /\ fleet = None
    /\ s3 = None /\ pc = None /\ lookup = None /\ processed = None /\ cost_data = None
    /\ fleet_result = None /\ charged_resources = None /\ response = None
    /\ calls = None /\ disturbed = FALSE
    /\ email_args = None /\ email_ret = None
    /\ fleet_args = None /\ fleet_pc = None /\ futures = None /\ yielded = None
    /\ region_resources = None /\ fleet_ret = None

\* One call; ok is FALSE when a get_cost_and_usage call raises.
CostCall ==
    /\ cost_ret = None
    /\ \E ok \in BOOLEAN :
        cost_ret' = <<get_detailed_cost_explorer_data(
                        [ok |-> ok, service_response |-> billing.service_response,
                         detailed_response |-> billing.detailed_response])>>
    /\ UNCHANGED <<envVars, handlerVars, emailVars, fleetVars, pureVars>>

CostNext == CostCall

CostSpec == CostInit /\ [][CostNext]_vars

\* ------------------------------------------------------------ RegionSpec
\* get_charged_resources_in_region over the answers of its sub-queries.

\* The sub-queries: the response read, the records made of it, and the
\* literals one of which a charged service's name has to contain.
SubQueries ==
    {[response |-> "instances", service |-> "EC2", resource_type |-> "Instance",
      lits |-> {"Elastic Compute Cloud", "EC2"}],
     [response |-> "db_instances", service |-> "RDS", resource_type |-> "DB Instance",
      lits |-> {"Relational Database Service", "RDS"}],
     [response |-> "volumes", service |-> "EBS", resource_type |-> "Volume",
      lits |-> {"Elastic Block Store", "EBS"}],
     [response |-> "elbv2", service |-> "ELB", resource_type |-> "Load Balancer",
      lits |-> {"Elastic Load Balancing", "ELB"}],
     [response |-> "elb", service |-> "ELB", resource_type |-> "Classic Load Balancer",
      lits |-> {"Elastic Load Balancing", "ELB"}],
     [response |-> "nat_gateways", service |-> "VPC", resource_type |-> "NAT Gateway",
      lits |-> {"Virtual Private Cloud", "VPC"}],
     [response |-> "addresses", service |-> "VPC", resource_type |-> "Elastic IP",
      lits |-> {"Virtual Private Cloud", "VPC"}],
     [response |-> "vpc_endpoints", service |-> "VPC", resource_type |-> "VPC Endpoint",
      lits |-> {"Virtual Private Cloud", "VPC"}],
     [response |-> "cache_clusters", service |-> "ElastiCache",
      resource_type |-> "Cache Cluster", lits |-> {"ElastiCache"}],
     [response |-> "clusters", service |-> "Redshift", resource_type |-> "Cluster",
      lits |-> {"Redshift"}],
     [response |-> "functions", service |-> "Lambda", resource_type |-> "Function",
      lits |-> {"Lambda"}]}

\* Each sub-query answers with one resource or raises; a NAT gateway may be
\* in a state get_nat_gateways drops.
RegionAnswers ==
    [instances : {Ok(<<Item("i-1", "running")>>), Raises},
     db_instances : {Ok(<<Item("db-1", "available")>>), Raises},
     volumes : {Ok(<<Item("vol-1", "in-use")>>), Raises},
     elbv2 : {Ok(<<Item("alb-1", "active")>>), Raises},
     elb : {Ok(<<Item("clb-1", "active")>>), Raises},
     nat_gateways : {Ok(<<Item("nat-1", "available"), Item("nat-2", "deleted")>>), Raises},
     addresses : {Ok(<<Item("eip-1", "associated")>>), Raises},
     vpc_endpoints : {Ok(<<Item("vpce-1", "available")>>), Raises},
     cache_clusters : {Ok(<<Item("cache-1", "available")>>), Raises},
     clusters : {Ok(<<Item("rs-1", "available")>>), Raises},
     functions : {Ok(<<Item("fn-1", "Active")>>), Raises}]

RegionChargedSets ==
    {{name["EC2 - Other"], name["Amazon Elastic Load Balancing"],
      name["Amazon Virtual Private Cloud"]},
     {name["Amazon Relational Database Service"], name["Amazon ElastiCache"],
      name["Amazon Redshift"], name["AWS Lambda"], name["Tax"]},
     {name["EC2 - Other"], name["Amazon Relational Database Service"],
      name["Amazon Elastic Block Store"],
      name["Amazon Elastic Load Balancing"], name["Amazon Virtual Private Cloud"],
      name["Amazon ElastiCache"], name["Amazon Redshift"], name["AWS Lambda"]}}

RegionInit ==
    /\ region_args \in [region : {"us-east-1"}, charged_services : RegionChargedSets,
                         inv : RegionAnswers]
    /\ region_ret = None
    /\ clean_args = None /\ clean_ret = None
    /\ RECIPIENT_EMAILS = None /\ billing = None /\ fleet = None
    /\ s3 = None /\ pc = None /\ lookup = None /\ processed = None /\ cost_data = None
    /\ fleet_result = None /\ charged_resources = None /\ response = None
    /\ calls = None /\ disturbed = FALSE
    /\ email_args = None /\ email_ret = None
    /\ fleet_args = None /\ fleet_pc = None /\ futures = None /\ yielded = None
    /\ region_resources = None /\ fleet_ret = None
    /\ cost_ret = None

RegionCall ==
    /\ region_ret = None
    /\ region_ret' = <<get_charged_resources_in_region(region_args.region,
                            region_args.charged_services, region_args.inv)>>
    /\ UNCHANGED <<envVars, handlerVars, emailVars, fleetVars, costVars, region_args,
                   clean_args, clean_ret>>

RegionNext == RegionCall

RegionSpec == RegionInit /\ [][RegionNext]_vars

\* ------------------------------------------------------------- CleanSpec
\* clean_usage_type_name over usage codes made of up to two leading pieces (a
\* known region prefix, something close to one, or nothing) and a rest.
NearPrefixes == {<<"U", "S", "E", "1">>, <<"u", "s", "e", "1", "-">>, <<"U", "S", "E", "3", "-">>}

Leads == {<<>>} \cup Range(region_prefixes) \cup NearPrefixes

Rests == {<<>>, <<"B", "o", "x", "U", "s", "a", "g", "e", ":", "t", "3">>, <<"O", "u", "t", "-", "B", "y", "t", "e", "s">>, <<"x", "-", "U", "S", "E", "1", "-", "B", "y", "t", "e", "s">>}

UsageCodes == {first \o second \o rest : first \in Leads, second \in Leads, rest \in Rests}

CleanInit ==
    /\ clean_args \in [usage_type : UsageCodes,
                        service : {name["EC2 - Other"], name["Tax"]}]
    /\ clean_ret = None
    /\ region_args = None /\ region_ret = None
    /\ RECIPIENT_EMAILS = None /\ billing = None /\ fleet = None
    /\ s3 = None /\ pc = None /\ lookup = None /\ processed = None /\ cost_data = None
    /\ fleet_result = None /\ charged_resources = None /\ response = None
    /\ calls = None /\ disturbed = FALSE
    /\ email_args = None /\ email_ret = None
    /\ fleet_args = None /\ fleet_pc = None /\ futures = None /\ yielded = None
    /\ region_resources = None /\ fleet_ret = None
    /\ cost_ret = None

\* One call: cleaned as the prefix loop leaves it (lines 361-371), and the
\* name returned.
CleanCall ==
    /\ clean_ret = None
    /\ clean_ret' = <<[cleaned |-> StripRegionPrefix(clean_args.usage_type, 1),
                       returned |-> clean_usage_type_name(clean_args.usage_type,
                                                          clean_args.service)]>>
    /\ UNCHANGED <<envVars, handlerVars, emailVars, fleetVars, costVars, region_args,
                   region_ret, clean_args>>

CleanNext == CleanCall

CleanSpec == CleanInit /\ [][CleanNext]_vars




\* ------------------------------------------------------------ properties
ReachedSend(i) == \E k \in DOMAIN calls[i] : calls[i][k] = "send_email_report"

Short == [statusCode |-> 200, message |-> "Report already sent today"]

\* C1: an invocation whose marker lookup finds the marker short-circuits: it
\* makes no call but the lookup (no billing, inventory, storage-write or
\* email call) and returns statusCode 200 with 'Report already sent today'.
C1_ShortCircuit ==
    \A i \in Invocations :
        /\ pc[i] = "gate" /\ lookup[i] = "found" => processed[i]
        /\ processed[i] =>
            /\ pc[i] \in {"gate", "done"}
            /\ calls[i] = <<"head_object">>
            /\ pc[i] = "done" => response[i] = Short

C1_Witness == \E i \in Invocations : pc[i] = "done" /\ processed[i] /\ response[i] = Short

RegionLists(scanned) == SelectSeq(scanned.region_resources, LAMBDA e : e.key # "global")

\* C5: detailed_resources is as long as the per-region lists and the global
\* list together.
C5_FlatLength ==
    \A i \in Invocations :
        charged_resources[i] # None =>
            Len(charged_resources[i].detailed_resources)
                = Len(Flatten(RegionLists(fleet_result[i])))
                  + Len(fleet_result[i].global_resources)

\* C9: a storage write that fails in mark_as_processed is swallowed: the
\* invocation goes on to send_email_report and returns statusCode 200.
C9_MarkFailureSwallowed ==
    \A i \in Invocations :
        /\ pc[i] \in {"start", "gate", "scan", "assemble", "mark", "mark_report",
                      "send", "done"}
        /\ pc[i] = "done" /\ ~processed[i] =>
            /\ response[i].statusCode = 200
            /\ ReachedSend(i)

\* The invocation has returned and the marker was never written: its put of
\* the execution record failed.
C9_Witness ==
    \E i \in Invocations :
        /\ pc[i] = "done" /\ ~processed[i] /\ ReachedSend(i)
        /\ s3[MarkerKey] = None

\* C10: already_processed_today returns True only when the lookup succeeds;
\* after 'not found' and after any other error it returns False and the
\* handler goes on to the cost fetch.
C10_LookupErrorMeansNotProcessed ==
    [][\A i \in Invocations :
        pc[i] = "gate" =>
            /\ processed[i] <=> lookup[i] = "found"
            /\ lookup[i] # "found" /\ pc'[i] # pc[i] =>
                pc'[i] = "scan" /\ cost_data'[i] # None]_vars

\* The lookup failed while the marker was there, and the gate said False.
C10_Witness ==
    \E i \in Invocations :
        /\ pc[i] = "gate"
        /\ lookup[i] \in {"client_error", "exception"}
        /\ ~processed[i]
        /\ s3[MarkerKey] # None

\* The entries of RECIPIENT_EMAILS that hold an address once stripped.
NonBlank == {k \in DOMAIN RECIPIENT_EMAILS : strip(RECIPIENT_EMAILS[k]) # <<>>}

\* The entries send_email was called for.
Attempted(ret) == {ret.calls[j].index : j \in DOMAIN ret.calls}

\* C7: with a recipient list that is empty or blank (no entry is a non-blank
\* address) send_email_report returns False and calls send_email for nobody.
C7_BlankListReturnsFalse ==
    email_ret # None /\ NonBlank = {} =>
        ~email_ret[1].result /\ email_ret[1].calls = <<>>

\* C8: a call that reaches the recipient loop returns True iff no send raises;
\* when the send for one recipient raises the call returns False, the
\* recipients before it have been delivered to and none after it is tried.
C8_AllOrNothingResult ==
    email_ret # None /\ email_ret[1].guard /\ email_args.prepared =>
        LET ret == email_ret[1]
            raising == {k \in NonBlank : email_args.ses[k] = "raise"}
            first == CHOOSE k \in raising : \A other \in raising : k <= other
        IN /\ ret.result <=> raising = {}
           /\ ret.result => Attempted(ret) = NonBlank
           /\ ret.result => \A j \in DOMAIN ret.calls : ret.calls[j].ok
           /\ raising # {} =>
                /\ Attempted(ret) = {k \in NonBlank : k <= first}
                /\ \A j \in DOMAIN ret.calls : ret.calls[j].ok <=> ret.calls[j].index < first

\* One recipient delivered to, the send for the next raising, a third never
\* tried.
C8_Witness ==
    /\ email_ret # None
    /\ ~email_ret[1].result
    /\ Len(email_ret[1].calls) = 2
    /\ email_ret[1].calls[1].ok /\ ~email_ret[1].calls[2].ok
    /\ \E k \in NonBlank : k > email_ret[1].calls[2].index

\* C3: when one region's task never completes and every other task has
\* completed and been collected, get_all_charged_resources still returns: it
\* has returned or can take its next step.
C3_ReturnsDespiteHang ==
    LET silent == {region \in Regions : ~fleet.responds[region]}
    IN /\ Cardinality(silent) = 1
       /\ fleet_pc = "as_completed"
       /\ Regions \ silent \subseteq Range(yielded)
       => ENABLED FleetNext


\* The lines of a billing response with cost > 0, and the sum of a map's values.
PositiveGroups(results_by_time) ==
    LET groups == Groups(results_by_time)
    IN {groups[k] : k \in {j \in DOMAIN groups : groups[j].cost > 0}}

RECURSIVE SumValues(_)
SumValues(f) ==
    IF DOMAIN f = {} THEN 0
    ELSE LET k == CHOOSE k \in DOMAIN f : TRUE
         IN f[k] + SumValues([j \in DOMAIN f \ {k} |-> f[j]])

Cent == 10

\* C4: whenever get_detailed_cost_explorer_data has returned, total_cost is
\* the sum of the values of by_service, to within a cent.
C4_TotalIsSumOfByService ==
    cost_ret # None =>
        LET diff == cost_ret[1].total_cost - SumValues(cost_ret[1].by_service)
        IN -Cent < diff /\ diff < Cent

\* C6: whenever get_detailed_cost_explorer_data has returned, every entry of
\* by_service and of detailed_breakdown has cost > 0 and is the cost of a
\* billing line with cost > 0, and total_cost is the sum of the entries kept
\* in by_service, to within a cent.
C6_OnlyPositiveKept ==
    cost_ret # None =>
        LET model == cost_ret[1]
            diff == model.total_cost - SumValues(model.by_service)
        IN /\ \A service \in DOMAIN model.by_service :
                /\ model.by_service[service] > 0
                /\ \E group \in PositiveGroups(billing.service_response) :
                       group.service = service /\ group.cost = model.by_service[service]
           /\ \A service \in DOMAIN model.detailed_breakdown :
              \A usage_type \in DOMAIN model.detailed_breakdown[service] :
                LET entry == model.detailed_breakdown[service][usage_type]
                IN /\ entry.cost > 0
                   /\ \E group \in PositiveGroups(billing.detailed_response) :
                          /\ group.service = service
                          /\ group.usage_type = entry.usage_type_raw
                          /\ group.cost = entry.cost
           /\ -Cent < diff /\ diff < Cent


\* The invocation's billing query raised; the get_cost_and_usage calls it made.
BillingRaised(i) == \E k \in DOMAIN calls[i] : calls[i][k] = "get_cost_and_usage raised"
BillingCalls(i) ==
    {k \in DOMAIN calls[i] : calls[i][k] \in {"get_cost_and_usage", "get_cost_and_usage raised"}}
Made(i, what) == \E k \in DOMAIN calls[i] : calls[i][k] = what

\* C11: when a billing query has raised, the cost model is the empty one, no
\* billing query is made after the one that raised, the invocation can always
\* take its next step, and once it has returned it has assembled the report,
\* called mark_as_processed and send_email_report, and returned statusCode 200.
C11_BillingFailureGivesEmptyModel ==
    \A i \in Invocations :
        BillingRaised(i) =>
            /\ pc[i] # "done" => cost_data[i] = EmptyCostModel
            /\ Cardinality(BillingCalls(i)) <= 2
            /\ \A k \in BillingCalls(i) :
                 calls[i][k] = "get_cost_and_usage raised" =>
                    \A later \in BillingCalls(i) : later <= k
            /\ pc[i] # "done" => ENABLED lambda_handler(i)
            /\ charged_resources[i] # None =>
                /\ charged_resources[i].total_cost = 0
                /\ charged_resources[i].resources_by_service = <<>>
                /\ charged_resources[i].detailed_cost_breakdown = <<>>
            /\ pc[i] = "done" =>
                /\ Made(i, "put_object") \/ Made(i, "put_object raised")
                /\ Made(i, "send_email_report")
                /\ response[i].statusCode = 200

\* A day on which services are charged: the billing query raised, and the
\* invocation has returned 200.
C11_Witness ==
    \E i \in Invocations :
        /\ billing = BillingGlobal
        /\ BillingRaised(i)
        /\ pc[i] = "done"
        /\ response[i].statusCode = 200


\* get_all_charged_resources has returned after its global fetch.
Scanned == fleet_pc = "returned" /\ Range(yielded) = Regions

\* The global fetch that raised, if one did: the fetches run in the order
\* CloudFront, Route 53, WAF, each only for a charged service, and a raise of
\* CloudFront or Route 53 ends the function.
GlobalFetchRaised ==
    LET cloudfront == AnyCharged(fleet_args, {"CloudFront"}) /\ ~fleet.global.distributions.ok
        route53 == AnyCharged(fleet_args, {"Route 53"}) /\ ~fleet.global.hosted_zones.ok
        waf == AnyCharged(fleet_args, {"WAF"}) /\ ~fleet.global.web_acls.ok
    IN IF cloudfront THEN "CloudFront"
       ELSE IF route53 THEN "Route 53"
       ELSE IF waf THEN "WAF"
       ELSE "none"

\* The entries of the returned map that are regions, in the map's order.
RegionEntries(by_region) == SelectSeq(by_region, LAMBDA entry : entry.key # "global")

\* The region results as gathered by the as_completed loop.
Gathered == CollectAll(yielded, fleet_args, fleet.inventory, <<>>)

Selected(args) == {q \in SubQueries : AnyCharged(args.charged_services, q.lits)}

\* The records a sub-query's answer gives when it does not raise.
Answered(q, args) ==
    LET items == args.inv[q.response].items
        kept == IF q.response = "nat_gateways"
                THEN SelectSeq(items, LAMBDA nat : nat.state \in {"available", "pending"})
                ELSE items
    IN Range(Records(kept, q.service, q.resource_type, args.region))

\* The records of the result that come from a sub-query.
From(q, resources) ==
    {resources[k] : k \in {j \in DOMAIN resources :
        resources[j].service = q.service /\ resources[j].resource_type = q.resource_type}}

\* C13: in the result of get_charged_resources_in_region a selected sub-query
\* that raised has no record, and every record of every selected sub-query
\* that answered is there, whichever other sub-queries raised.
C13_SubQueriesFailIndependently ==
    region_ret # None =>
        \A q \in Selected(region_args) :
            IF region_args.inv[q.response].ok
            THEN From(q, region_ret[1]) = Answered(q, region_args)
            ELSE From(q, region_ret[1]) = {}

\* describe_load_balancers of elbv2 raised and the classic load balancer
\* and the instance of the same region are in the result.
C13_Witness ==
    /\ region_ret # None
    /\ \E q \in Selected(region_args) : q.response = "elbv2"
    /\ ~region_args.inv.elbv2.ok
    /\ \E k \in DOMAIN region_ret[1] : region_ret[1][k].resource_id = "clb-1"
    /\ \E k \in DOMAIN region_ret[1] : region_ret[1][k].resource_id = "i-1"


\* C14: an invocation that has returned statusCode 500 has written nothing to
\* storage and has sent no email.
C14_ErrorMeansNothingDone ==
    \A i \in Invocations :
        response[i] # None /\ response[i].statusCode = 500 =>
            ~Made(i, "put_object") /\ ~Made(i, "send_email")


\* A code starts with one of the known region prefixes.
HasRegionPrefix(code) ==
    \E k \in DOMAIN region_prefixes : StartsWith(code, region_prefixes[k])

\* cleaned is code without one known prefix at its start, or code itself
\* when it starts with none.
StrippedOnce(code, cleaned) ==
    IF HasRegionPrefix(code)
    THEN \E k \in DOMAIN region_prefixes : code = region_prefixes[k] \o cleaned
    ELSE cleaned = code

\* C15 as stated: the prefix loop removes one known prefix at the start of
\* the code or leaves the code unchanged, and stripping what it leaves
\* changes nothing.
C15_StripIdempotent ==
    clean_ret # None =>
        /\ StrippedOnce(clean_args.usage_type, clean_ret[1].cleaned)
        /\ StripRegionPrefix(clean_ret[1].cleaned, 1) = clean_ret[1].cleaned

\* C15 as amended: the prefix loop removes one known prefix at the start of
\* the code or leaves the code unchanged; stripping what it leaves changes
\* nothing exactly when that does not itself start with a known prefix.
C15_StripsOnePrefixAtStart ==
    clean_ret # None =>
        /\ StrippedOnce(clean_args.usage_type, clean_ret[1].cleaned)
        /\ StripRegionPrefix(clean_ret[1].cleaned, 1) = clean_ret[1].cleaned
            <=> ~HasRegionPrefix(clean_ret[1].cleaned)

\* A code with two region prefixes: one is gone, the other still leads.
C15_Witness ==
    /\ clean_ret # None
    /\ HasRegionPrefix(clean_args.usage_type)
    /\ HasRegionPrefix(clean_ret[1].cleaned)
    /\ Len(clean_ret[1].cleaned) + 5 = Len(clean_args.usage_type)


\* What the scan of a region returns in the fleet at hand.
ScanOf(region) ==
    get_charged_resources_in_region(region, fleet_args, fleet.inventory[region])

\* C16: in the map get_all_charged_resources returns after scanning, a region
\* is a key iff its scan returned at least one resource, and then maps to
\* what the scan returned; "global" is a key iff the global list returned is
\* not empty, and then maps to exactly that list; there is no other key.
C16_KeysAreNonEmptyResults ==
    Scanned =>
        LET returned == fleet_ret[1].region_resources
            global_resources == fleet_ret[1].global_resources
        IN /\ Keys(returned) \subseteq Regions \cup {"global"}
           /\ \A region \in Regions :
                /\ region \in Keys(returned) <=> ScanOf(region) # <<>>
                /\ region \in Keys(returned) => Get(returned, region) = ScanOf(region)
           /\ "global" \in Keys(returned) <=> global_resources # <<>>
           /\ "global" \in Keys(returned) => Get(returned, "global") = global_resources
           /\ global_resources = get_global_charged_resources(fleet_args, fleet.global)

\* A scan that found resources in one region and none in another, with a
\* global list that is not empty.
C16_Witness ==
    /\ Scanned
    /\ \E region \in Regions : ScanOf(region) # <<>>
    /\ \E region \in Regions : ScanOf(region) = <<>>
    /\ "global" \in Keys(fleet_ret[1].region_resources)


\* The step of lambda_handler a call belongs to: 1 the gate check, 2 the cost
\* fetch, 3 the fleet scan, 5 the marker write, 6 the email send. Step 4, the
\* assembly, makes no call.
StepOf(call) ==
    CASE call = "head_object" -> 1
      [] call \in {"get_cost_and_usage", "get_cost_and_usage raised"} -> 2
      [] call \in {"describe_regions", "inventory"} -> 3
      [] call \in {"put_object", "put_object raised"} -> 5
      [] call \in {"send_email_report", "send_email"} -> 6

StepsMade(i) == {StepOf(calls[i][k]) : k \in DOMAIN calls[i]}

\* The calls of every invocation are in the order of the steps, the report
\* is assembled after the scan and before the marker write, an invocation
\* that was not short-circuited has made every step's call by the time it
\* returns, and one that was short-circuited sends nothing.
StepsInOrder ==
    \A i \in Invocations :
        /\ \A k, l \in DOMAIN calls[i] :
            k < l => StepOf(calls[i][k]) <= StepOf(calls[i][l])
        /\ pc[i] \in {"scan", "assemble"} =>
            charged_resources[i] = None /\ StepsMade(i) \subseteq {1, 2, 3}
        /\ pc[i] = "mark" =>
            charged_resources[i] # None /\ StepsMade(i) \subseteq {1, 2, 3}
        /\ pc[i] \in {"mark_report", "send"} => StepsMade(i) \ {3} = {1, 2, 5}
        /\ pc[i] = "done" /\ ~processed[i] => StepsMade(i) \ {3} = {1, 2, 5, 6}
        /\ processed[i] => ~ReachedSend(i)

\* Invocation i has returned, its write of the execution record succeeded
\* and its send_email_report returned False.
MarkedUnsent(i) ==
    /\ pc[i] = "done"
    /\ ReachedSend(i)
    /\ Made(i, "put_object")
    /\ ~response[i].email_sent

\* Invocation j makes its gate check in this step, after i has returned
\* marked and unsent.
LaterCheck(i, j) == i # j /\ MarkedUnsent(i) /\ pc[j] = "start" /\ pc'[j] = "gate"

\* C17 as stated: the steps are made in the order gate check, cost fetch,
\* fleet scan, assembly, marker write, email send, and every invocation that
\* makes its gate check after one that has written the marker and failed to
\* send is short-circuited (and so sends nothing).
C17_LaterRunsShortCircuit ==
    /\ []StepsInOrder
    /\ [][\A i, j \in Invocations : LaterCheck(i, j) => processed'[j]]_vars

\* C17 as amended: the steps are made in that order, and an invocation that
\* makes its gate check after one that has written the marker and failed to
\* send is short-circuited (and so sends nothing) exactly when its lookup
\* succeeds; the lookup never answers 'not found'.
C17_LaterRunsShortCircuitWhenLookupSucceeds ==
    /\ []StepsInOrder
    /\ [][\A i, j \in Invocations :
            LaterCheck(i, j) =>
                /\ lookup'[j] # "404"
                /\ processed'[j] <=> lookup'[j] = "found"]_vars

\* One invocation has written the marker and sent nothing, and another has
\* been short-circuited.
C17_Witness ==
    \E i, j \in Invocations :
        /\ MarkedUnsent(i)
        /\ pc[j] = "done" /\ response[j] = Short


\* A dict as a function from its keys: what dict equality compares.
AsMap(dict) == [key \in Keys(dict) |-> Get(dict, key)]

\* The map returned when the tasks complete in the order they were submitted.
InSubmissionOrder ==
    get_all_charged_resources(fleet_args, TRUE, fleet, fleet.regions).region_resources

\* C18: region_resources changes only in a step of the coordinating thread
\* (the loop body taking a completed future, or the lines after the loop),
\* never in a worker's step; it holds keys of yielded futures only; and the
\* map returned is, as a map, the one returned when the tasks complete in
\* submission order, whatever order they completed in.
C18_MapSameForEveryOrder ==
    /\ [](fleet_pc = "as_completed" => Keys(region_resources) \subseteq Range(yielded))
    /\ [](Scanned => AsMap(fleet_ret[1].region_resources) = AsMap(InSubmissionOrder))
    /\ [][region_resources' # region_resources =>
            /\ futures' = futures
            /\ \/ Len(yielded') = Len(yielded) + 1
               \/ fleet_pc' = "returned"]_vars

\* The tasks completed in another order than they were submitted in, and
\* two regions at least are in the map.
C18_Witness ==
    /\ Scanned
    /\ yielded # fleet.regions
    /\ Cardinality(Keys(fleet_ret[1].region_resources) \cap Regions) >= 2


\* The invocation has made an inventory call: describe_regions, or the
\* regions' scans and the global fetch.
MadeInventoryCall(i) == Made(i, "describe_regions") \/ Made(i, "inventory")

\* C19: an invocation makes inventory calls only after a cost fetch that
\* found a service with positive cost; with no charged service, and so after
\* a billing query that raised, it makes none and its report has empty
\* resources_by_region and detailed_resources, regions_checked 0 and
\* resources_found 0.
C19_InventoryOnlyWhenCharged ==
    \A i \in Invocations :
        /\ BillingRaised(i) \/ billing = BillingNothing \/ pc[i] \in {"start", "gate", "scan"}
            => ~MadeInventoryCall(i)
        /\ pc[i] \in {"assemble", "mark", "mark_report", "send"} =>
            /\ MadeInventoryCall(i) <=>
                \E service \in charged_services(i) : cost_data[i].by_service[service] > 0
            /\ BillingRaised(i) => charged_services(i) = {}
            /\ charged_services(i) = {} /\ charged_resources[i] # None =>
                /\ charged_resources[i].resources_by_region = <<>>
                /\ charged_resources[i].detailed_resources = <<>>
                /\ charged_resources[i].processing_stats
                    = [regions_checked |-> 0, resources_found |-> 0]

\* A report assembled after a billing query raised on a day with charges: no
\* service is charged in the cost model and nothing was scanned.
C19_Witness ==
    \E i \in Invocations :
        /\ pc[i] = "send"
        /\ charged_services(i) = {}
        /\ BillingRaised(i) /\ billing = BillingGlobal
        /\ charged_resources[i].processing_stats.resources_found = 0


\* The collaborator failures an invocation's calls show: a billing query or
\* a storage write that raised, a describe_regions that raised (no scan
\* followed it), a send that reached nobody.
FailuresOf(i) ==
    {failure \in {"billing", "regions", "storage", "email"} :
        CASE failure = "billing" -> BillingRaised(i)
          [] failure = "regions" -> Made(i, "describe_regions") /\ ~Made(i, "inventory")
          [] failure = "storage" -> Made(i, "put_object raised")
          [] failure = "email" -> pc[i] = "done" /\ ReachedSend(i) /\ ~response[i].email_sent}

\* C20: whatever collaborators failed (the marker lookup, a billing query,
\* describe_regions, inventory queries, a storage write, the email send), an
\* invocation that has returned has returned statusCode 200, with the
\* outcome of the send when it was not short-circuited; there is no response
\* before the return.
C20_CollaboratorFailuresGive200 ==
    \A i \in Invocations :
        /\ pc[i] = "done" => response[i].statusCode = 200
        /\ pc[i] = "done" /\ ~processed[i] => "email_sent" \in DOMAIN response[i]
        /\ response[i] # None => pc[i] = "done"

\* One invocation has returned after a billing query, a storage write and
\* the email send all failed, another after describe_regions raised.
C20_Witness ==
    \E i, j \in Invocations :
        /\ pc[i] = "done" /\ FailuresOf(i) = {"billing", "storage", "email"}
        /\ pc[j] = "done" /\ "regions" \in FailuresOf(j)
        /\ response[i].statusCode = 200 /\ response[j].statusCode = 200


\* C21: when send_email_report returns True, a send_email call was made and
\* completed in that call, whatever the recipient list.
C21_TrueMeansSent ==
    email_ret # None /\ email_ret[1].result =>
        \E j \in DOMAIN email_ret[1].calls : email_ret[1].calls[j].ok


\* mark_as_processed has been called by invocation i and has returned.
MarkReturned(i) ==
    /\ pc[i] \in {"send", "done"}
    /\ Made(i, "put_object") \/ Made(i, "put_object raised")

\* C22: once mark_as_processed has returned, whichever storage write failed,
\* the execution marker is in the bucket only if the full report is there
\* too.
C22_MarkerOnlyWithReport ==
    \A i \in Invocations :
        MarkReturned(i) => (s3[MarkerKey] # None => s3[ReportKey] # None)

====
